---- MODULE Spec2Model ----
(***************************************************************************)
(* Model of server/config_loader.py: the process-wide default              *)
(* configuration (load_default_config, get_default_config), the recursive  *)
(* deep_merge of two dictionaries, and merge_with_default.                 *)
(*                                                                         *)
(* Python dictionaries are mutable objects reached through references, so  *)
(* deep_merge is modelled on a heap of dict objects: what it allocates,    *)
(* what it copies and what it writes are then visible to the properties    *)
(* that say an argument or the stored default is left alone.               *)
(***************************************************************************)
EXTENDS Integers, Sequences, FiniteSets, TLC

VARIABLES
    mode,             \* which harness this behaviour belongs to
    heap,             \* Seq of dict objects: object id -> (key -> cell)
    heap0,            \* the heap as it was when the last call started
    fn_base,          \* deep_merge harness: object id of the base argument
    fn_override,      \* deep_merge harness: object id of the override argument
    fn_result,        \* deep_merge harness: object id returned (0: not called)
    fn_again,         \* deep_merge harness: id returned by the second call
    default_config,   \* _default_config: None, or a reference to the loaded dict
    request,          \* the request config of the last call: None, or <<"config", c>>
    ret,              \* what the last call returned or raised
    last_op,          \* the last operation and its inputs
    prev_store,       \* the value of _default_config before the last call
    loaded,           \* what the most recent successful load was given
    m_pc,             \* interleaved merge_with_default: position in the code
    m_dict,           \* interleaved merge_with_default: merged_dict
    seen              \* interleaved merge_with_default: store values during the call

vars == <<mode, heap, heap0, fn_base, fn_override, fn_result, fn_again, default_config, request,
          ret, last_op, prev_store, loaded, m_pc, m_dict, seen>>

-----------------------------------------------------------------------------
(* Bounds of the model. *)

\* Entries (key/value pairs, at any nesting level) of a dictionary drawn as input.
MaxNodes == 3

\* The dictionary keys and the non-dict values (numbers, strings, lists: anything
\* for which isinstance(v, dict) is False) the inputs are built from.
Keys == {"a", "b"}
Scalars == {1, 2}

-----------------------------------------------------------------------------
(* JSON-like values.  A value is <<"s", n>> (not a dict) or <<"d", f>> with f *)
(* a function from a set of keys to values (a dict).                          *)

None == <<"none">>

Scalar(n) == <<"s", n>>
Dict(f) == <<"d", f>>
IsDict(v) == v[1] = "d"
EmptyDict == << >>

RECURSIVE Size(_)
\* The number of entries of the dict f, nested entries included.
Size(f) ==
    IF DOMAIN f = {} THEN 0
    ELSE LET k == CHOOSE x \in DOMAIN f : TRUE
             rest == [x \in DOMAIN f \ {k} |-> f[x]]
         IN 1 + (IF IsDict(f[k]) THEN Size(f[k][2]) ELSE 0) + Size(rest)

RECURSIVE DictsUpTo(_)
\* Every dict over Keys and Scalars with at most n entries.
DictsUpTo(n) ==
    IF n = 0 THEN {EmptyDict}
    ELSE LET V == {Scalar(s) : s \in Scalars} \cup {Dict(d) : d \in DictsUpTo(n - 1)}
         IN {f \in UNION {[ks -> V] : ks \in SUBSET Keys} : Size(f) <= n}

Dicts == DictsUpTo(MaxNodes)

\* Entries of the JSON object a configuration file holds.
MaxFileNodes == 2

FileDicts == DictsUpTo(MaxFileNodes)

-----------------------------------------------------------------------------
(* The heap.  A dict object maps keys to cells; a cell is <<"s", n>> or      *)
(* <<"r", id>>, a reference to another dict object.                           *)

Ref(id) == <<"r", id>>
IsRef(c) == c[1] = "r"

\* d[k] = c
Put(d, k, c) == [x \in DOMAIN d \cup {k} |-> IF x = k THEN c ELSE d[x]]

RECURSIVE Alloc(_, _)
\* The dict f built as fresh objects on h (as json.load or model_dump build
\* it: a tree, no object shared).  Returns the heap and the new object's id.
Alloc(h, f) ==
    LET id == Len(h) + 1
        AllocKeys[ks \in SUBSET DOMAIN f] ==
            IF ks = {} THEN Append(h, EmptyDict)
            ELSE LET k == CHOOSE x \in ks : TRUE
                     h1 == AllocKeys[ks \ {k}]
                 IN IF IsDict(f[k])
                    THEN LET sub == Alloc(h1, f[k][2])
                         IN [sub.heap EXCEPT ![id] = Put(@, k, Ref(sub.id))]
                    ELSE [h1 EXCEPT ![id] = Put(@, k, f[k])]
    IN [heap |-> AllocKeys[DOMAIN f], id |-> id]

RECURSIVE Val(_, _)
\* The dict value the object id holds in h, read through its references.
Val(h, id) ==
    [k \in DOMAIN h[id] |->
        IF IsRef(h[id][k]) THEN Dict(Val(h, h[id][k][2])) ELSE h[id][k]]

-----------------------------------------------------------------------------
(* deep_merge (config_loader.py, lines 39-63), run on a heap h; base and     *)
(* override are the object ids of the arguments, result the id of the dict   *)
(* it returns.  It gives the heap after the call and that id.  The for loop  *)
(* visits the keys of override one at a time: Loop[ks] is the heap once the  *)
(* keys ks are done, Loop[{}] the heap right after result = base.copy().     *)
(* The keys are taken in no particular order: each iteration writes          *)
(* result[key] alone, so the order of override.items() changes nothing.      *)

RECURSIVE deep_merge(_, _, _)

\* As deep_merge, but result = base: the copy is forgotten.
deep_merge_no_copy(h, base, override) ==
    LET result == base
        Loop[ks \in SUBSET DOMAIN h[override]] ==
            IF ks = {} THEN h
            ELSE LET key == CHOOSE x \in ks : TRUE
                     h1 == Loop[ks \ {key}]
                     value == h[override][key]
                 IN IF key \in DOMAIN h1[result] /\ IsRef(h1[result][key]) /\ IsRef(value)
                    THEN LET sub == deep_merge(h1, h1[result][key][2], value[2])
                         IN [sub.heap EXCEPT ![result] = Put(@, key, Ref(sub.id))]
                    ELSE [h1 EXCEPT ![result] = Put(@, key, value)]
    IN [heap |-> Loop[DOMAIN h[override]], id |-> result]

\* As deep_merge, but without the recursion: dict.update on a copy.
deep_merge_shallow(h, base, override) ==
    LET result == Len(h) + 1
        Loop[ks \in SUBSET DOMAIN h[override]] ==
            IF ks = {} THEN Append(h, h[base])
            ELSE LET key == CHOOSE x \in ks : TRUE
                     h1 == Loop[ks \ {key}]
                 IN [h1 EXCEPT ![result] = Put(@, key, h[override][key])]
    IN [heap |-> Loop[DOMAIN h[override]], id |-> result]

\* As deep_merge, but a key of override that base lacks is dropped.
deep_merge_known_keys(h, base, override) ==
    LET result == Len(h) + 1
        Loop[ks \in SUBSET DOMAIN h[override]] ==
            IF ks = {} THEN Append(h, h[base])
            ELSE LET key == CHOOSE x \in ks : TRUE
                     h1 == Loop[ks \ {key}]
                     value == h[override][key]
                 IN IF key \notin DOMAIN h1[result] THEN h1
                    ELSE IF IsRef(h1[result][key]) /\ IsRef(value)
                    THEN LET sub == deep_merge(h1, h1[result][key][2], value[2])
                         IN [sub.heap EXCEPT ![result] = Put(@, key, Ref(sub.id))]
                    ELSE [h1 EXCEPT ![result] = Put(@, key, value)]
    IN [heap |-> Loop[DOMAIN h[override]], id |-> result]

\* As deep_merge, but two non-dict values under one key are combined (added)
\* instead of the override's replacing the base's.
deep_merge_combining(h, base, override) ==
    LET result == Len(h) + 1
        Loop[ks \in SUBSET DOMAIN h[override]] ==
            IF ks = {} THEN Append(h, h[base])
            ELSE LET key == CHOOSE x \in ks : TRUE
                     h1 == Loop[ks \ {key}]
                     value == h[override][key]
                 IN IF key \in DOMAIN h1[result] /\ IsRef(h1[result][key]) /\ IsRef(value)
                    THEN LET sub == deep_merge(h1, h1[result][key][2], value[2])
                         IN [sub.heap EXCEPT ![result] = Put(@, key, Ref(sub.id))]
                    ELSE IF key \in DOMAIN h1[result] /\ ~IsRef(h1[result][key]) /\ ~IsRef(value)
                    THEN [h1 EXCEPT ![result] = Put(@, key, <<"s", h1[result][key][2] + value[2]>>)]
                    ELSE [h1 EXCEPT ![result] = Put(@, key, value)]
    IN [heap |-> Loop[DOMAIN h[override]], id |-> result]

deep_merge(h, base, override) ==
    LET result == Len(h) + 1
        Loop[ks \in SUBSET DOMAIN h[override]] ==
            IF ks = {} THEN Append(h, h[base])           \* result = base.copy()
            ELSE LET key == CHOOSE x \in ks : TRUE
                     h1 == Loop[ks \ {key}]
                     value == h[override][key]
                 IN IF key \in DOMAIN h1[result] /\ IsRef(h1[result][key]) /\ IsRef(value)
                    THEN \* result[key] = deep_merge(result[key], value)
                         LET sub == deep_merge(h1, h1[result][key][2], value[2])
                         IN [sub.heap EXCEPT ![result] = Put(@, key, Ref(sub.id))]
                    ELSE \* result[key] = value
                         [h1 EXCEPT ![result] = Put(@, key, value)]
    IN [heap |-> Loop[DOMAIN h[override]], id |-> result]

-----------------------------------------------------------------------------
(* The Config type (manga_translator.Config, a pydantic model that is not    *)
(* part of config_loader.py).  What merge_with_default needs of it: named    *)
(* fields with declared defaults, some of them sub-configs with fields of    *)
(* their own; the set of fields that were explicitly set, kept per           *)
(* (sub-)config; model_dump(exclude_unset=True), which gives the explicitly  *)
(* set fields only, at every level; and model_validate, which builds an      *)
(* instance from a mapping or raises ValidationError.                        *)

\* A field is <<"s", declared default>> or <<"m", the sub-config's fields>>.
ConfigSchema ==
    [a |-> <<"s", 1>>,
     b |-> <<"m", [a |-> <<"s", 1>>, b |-> <<"s", 2>>]>>]

IsModel(field) == field[1] = "m"

RECURSIVE Validates(_, _)
\* Whether the mapping d has, under every field's name, a value of its type.
Validates(schema, d) ==
    \A f \in DOMAIN d \cap DOMAIN schema :
        IF IsModel(schema[f])
        THEN IsDict(d[f]) /\ Validates(schema[f][2], d[f][2])
        ELSE ~IsDict(d[f])

RECURSIVE Build(_, _)
\* The instance a valid mapping d makes: vals holds every field's value (an
\* instance, for a sub-config), set the fields d names.
Build(schema, d) ==
    [vals |-> [f \in DOMAIN schema |->
                 IF IsModel(schema[f])
                 THEN Build(schema[f][2], IF f \in DOMAIN d THEN d[f][2] ELSE EmptyDict)
                 ELSE IF f \in DOMAIN d THEN d[f] ELSE <<"s", schema[f][2]>>],
     set |-> DOMAIN d \cap DOMAIN schema]

\* Config.model_validate(d)
model_validate(d) ==
    IF Validates(ConfigSchema, d)
    THEN <<"config", Build(ConfigSchema, d)>>
    ELSE <<"ValidationError">>

RECURSIVE Dump(_, _, _)
\* The mapping of an instance's fields: all of them, or the explicitly set.
Dump(schema, inst, exclude_unset) ==
    [f \in (IF exclude_unset THEN inst.set ELSE DOMAIN schema) |->
        IF IsModel(schema[f])
        THEN Dict(Dump(schema[f][2], inst.vals[f], exclude_unset))
        ELSE inst.vals[f]]

\* request_config.model_dump(exclude_unset=...)
model_dump(inst, exclude_unset) == Dump(ConfigSchema, inst, exclude_unset)

\* The request configs: what validating a request's JSON body can give.
Requests == {Build(ConfigSchema, d) : d \in {x \in Dicts : Validates(ConfigSchema, x)}}

-----------------------------------------------------------------------------
(* The operations of config_loader.py.  Each takes the store (the value of   *)
(* _default_config: None or a reference) and the heap, and gives what the   *)
(* call leaves of them and what it returns or raises.                        *)
(* The store is None or Ref(id), a reference to a dict object.               *)

\* What the file system holds at a path: nothing readable, text that is not
\* JSON, or a JSON object.
Files == {<<"missing">>, <<"malformed">>} \cup {<<"json", d>> : d \in FileDicts}
Paths == {"", "default.json"}

\* As load_default_config, but the store is cleared before the file is read.
load_default_config_clear_first(store, h, config_path, file) ==
    IF config_path = ""
    THEN [store |-> None, heap |-> << >>, ret |-> <<"returned">>]
    ELSE IF file[1] = "missing"
    THEN [store |-> None, heap |-> << >>, ret |-> <<"OSError">>]
    ELSE IF file[1] = "malformed"
    THEN [store |-> None, heap |-> << >>, ret |-> <<"JSONDecodeError">>]
    ELSE LET new == Alloc(<< >>, file[2])
         IN [store |-> Ref(new.id), heap |-> new.heap, ret |-> <<"returned">>]

\* As load_default_config, but a loaded file is merged into the stored default.
load_default_config_merging(store, h, config_path, file) ==
    IF config_path = ""
    THEN [store |-> None, heap |-> << >>, ret |-> <<"returned">>]
    ELSE IF file[1] = "missing"
    THEN [store |-> store, heap |-> h, ret |-> <<"OSError">>]
    ELSE IF file[1] = "malformed"
    THEN [store |-> store, heap |-> h, ret |-> <<"JSONDecodeError">>]
    ELSE IF store = None
    THEN LET new == Alloc(<< >>, file[2])
         IN [store |-> Ref(new.id), heap |-> new.heap, ret |-> <<"returned">>]
    ELSE LET new == Alloc(h, file[2])
             m == deep_merge(new.heap, store[2], new.id)
             kept == Alloc(<< >>, Val(m.heap, m.id))
         IN [store |-> Ref(kept.id), heap |-> kept.heap, ret |-> <<"returned">>]

load_default_config(store, h, config_path, file) ==
    IF config_path = ""                       \* if not config_path
    THEN [store |-> None, heap |-> << >>, ret |-> <<"returned">>]
    ELSE IF file[1] = "missing"               \* open() raises
    THEN [store |-> store, heap |-> h, ret |-> <<"OSError">>]
    ELSE IF file[1] = "malformed"             \* json.load() raises
    THEN [store |-> store, heap |-> h, ret |-> <<"JSONDecodeError">>]
    ELSE \* _default_config = json.load(f); the dict loaded before is garbage
         LET new == Alloc(<< >>, file[2])
         IN [store |-> Ref(new.id), heap |-> new.heap, ret |-> <<"returned">>]

\* The value of the store: None, or the dict it refers to.
StoreValue(store, h) == IF store = None THEN None ELSE Dict(Val(h, store[2]))

\* get_default_config(): the store, as the caller reads it.
get_default_config(store, h) == StoreValue(store, h)

\* As merge_with_default, but without the test for a missing default.
merge_with_default_no_check(store, h, request_config) ==
    IF store = None
    THEN [ret |-> <<"AttributeError">>, heap |-> h, calls |-> <<"model_dump">>]
    ELSE LET request_dict == Alloc(h, model_dump(request_config, TRUE))
             merged_dict == deep_merge(request_dict.heap, store[2], request_dict.id)
         IN [ret |-> model_validate(Val(merged_dict.heap, merged_dict.id)),
             heap |-> merged_dict.heap,
             calls |-> <<"model_dump", "deep_merge", "model_validate">>]

\* As merge_with_default, but model_dump() gives every field of the request.
merge_with_default_dump_all(store, h, request_config) ==
    IF store = None
    THEN [ret |-> <<"config", request_config>>, heap |-> h, calls |-> << >>]
    ELSE LET request_dict == Alloc(h, model_dump(request_config, FALSE))
             merged_dict == deep_merge(request_dict.heap, store[2], request_dict.id)
         IN [ret |-> model_validate(Val(merged_dict.heap, merged_dict.id)),
             heap |-> merged_dict.heap,
             calls |-> <<"model_dump", "deep_merge", "model_validate">>]

merge_with_default(store, h, request_config) ==
    IF store = None
    THEN \* return request_config
         [ret |-> <<"config", request_config>>, heap |-> h, calls |-> << >>]
    ELSE LET request_dict == Alloc(h, model_dump(request_config, TRUE))
             merged_dict == deep_merge(request_dict.heap, store[2], request_dict.id)
         IN [ret |-> model_validate(Val(merged_dict.heap, merged_dict.id)),
             heap |-> merged_dict.heap,
             calls |-> <<"model_dump", "deep_merge", "model_validate">>]

\* When a handler has returned, the objects only it referred to are garbage:
\* the heap keeps the dict the store refers to, as the handler left it.
Collect(store, h) ==
    IF store = None THEN << >> ELSE Alloc(<< >>, Val(h, store[2])).heap

-----------------------------------------------------------------------------
(* The calls.  A behaviour is either a call of deep_merge on two drawn       *)
(* dicts (mode "fn"), or a sequence of calls of the module's functions in    *)
(* one thread (mode "store"), or a merge_with_default interleaved with loads *)
(* from another thread (mode "conc").                                        *)

\* last_op: the function called, load's path and file, the collaborators the
\* call used, and for a repeated merge what the merge before it returned.
Op(name, arg, calls, prev) == [op |-> name, arg |-> arg, calls |-> calls, prev |-> prev]

NoCall ==
    /\ default_config = None /\ request = None /\ ret = None
    /\ last_op = Op("init", None, << >>, None)
    /\ prev_store = None /\ loaded = None
    /\ m_pc = "idle" /\ m_dict = None /\ seen = {}

InitFn ==
    /\ mode = "fn"
    /\ \E a \in Dicts, b \in Dicts :
          LET ha == Alloc(<< >>, a)
              hb == Alloc(ha.heap, b)
          IN /\ heap = hb.heap
             /\ fn_base = ha.id
             /\ fn_override = hb.id
    /\ heap0 = heap
    /\ fn_result = 0
    /\ fn_again = 0
    /\ NoCall

\* fn_result = deep_merge(fn_base, fn_override)
CallDeepMerge ==
    /\ mode = "fn"
    /\ fn_result = 0
    /\ LET r == deep_merge(heap, fn_base, fn_override)
       IN /\ heap' = r.heap
          /\ fn_result' = r.id
    /\ heap0' = heap
    /\ UNCHANGED <<mode, fn_base, fn_override, fn_again, default_config, request, ret,
                   last_op, prev_store, loaded, m_pc, m_dict, seen>>

\* fn_again = deep_merge(fn_result, fn_override)
CallDeepMergeAgain ==
    /\ mode = "fn"
    /\ fn_result /= 0
    /\ fn_again = 0
    /\ LET r == deep_merge(heap, fn_result, fn_override)
       IN /\ heap' = r.heap
          /\ fn_again' = r.id
    /\ UNCHANGED <<mode, heap0, fn_base, fn_override, fn_result, default_config, request,
                   ret, last_op, prev_store, loaded, m_pc, m_dict, seen>>

InitStore ==
    /\ mode = "store"
    /\ heap = << >> /\ heap0 = << >>
    /\ fn_base = 0 /\ fn_override = 0 /\ fn_result = 0 /\ fn_again = 0
    /\ NoCall

\* load_default_config(path), the file system holding file at path
LoadDefaultConfig ==
    /\ mode = "store"
    /\ \E path \in Paths, file \in Files :
          \* no file is read when the path is empty
          /\ path = "" => file = <<"missing">>
          /\ LET r == load_default_config(default_config, heap, path, file)
             IN /\ default_config' = r.store
                /\ heap' = r.heap
                /\ ret' = r.ret
                /\ last_op' = Op("load_default_config", <<path, file>>, << >>, None)
                /\ loaded' = IF path = "" THEN None
                             ELSE IF file[1] = "json" THEN Dict(file[2])
                             ELSE loaded
    /\ prev_store' = StoreValue(default_config, heap)
    /\ heap0' = heap
    /\ request' = None
    /\ UNCHANGED <<mode, fn_base, fn_override, fn_result, fn_again, m_pc, m_dict, seen>>

\* get_default_config()
GetDefaultConfig ==
    /\ mode = "store"
    /\ ret' = get_default_config(default_config, heap)
    /\ last_op' = Op("get_default_config", None, << >>, None)
    /\ prev_store' = StoreValue(default_config, heap)
    /\ heap0' = heap
    /\ request' = None
    /\ UNCHANGED <<mode, heap, fn_base, fn_override, fn_result, fn_again, default_config,
                   loaded, m_pc, m_dict, seen>>

\* merge_with_default(req): the function assigns no global, so the store
\* variable keeps its reference; what the heap holds is what the call left.
MergeWithDefault ==
    /\ mode = "store"
    /\ \E req \in Requests :
          LET r == merge_with_default(default_config, heap, req)
          IN /\ request' = <<"config", req>>
             /\ ret' = r.ret
             /\ heap' = Collect(default_config, r.heap)
             /\ last_op' = Op("merge_with_default", None, r.calls, None)
    /\ prev_store' = StoreValue(default_config, heap)
    /\ heap0' = heap
    /\ UNCHANGED <<mode, fn_base, fn_override, fn_result, fn_again, default_config, loaded,
                   m_pc, m_dict, seen>>

\* merge_with_default(c), c the config the last merge_with_default returned
MergeAgain ==
    /\ mode = "store"
    /\ last_op.op = "merge_with_default"
    /\ ret[1] = "config"
    /\ LET r == merge_with_default(default_config, heap, ret[2])
       IN /\ request' = ret
          /\ ret' = r.ret
          /\ heap' = Collect(default_config, r.heap)
          /\ last_op' = Op("merge_again", None, r.calls, ret)
    /\ prev_store' = StoreValue(default_config, heap)
    /\ heap0' = heap
    /\ UNCHANGED <<mode, fn_base, fn_override, fn_result, fn_again, default_config, loaded,
                   m_pc, m_dict, seen>>

Init == InitFn \/ InitStore

Next ==
    \/ CallDeepMerge
    \/ CallDeepMergeAgain
    \/ LoadDefaultConfig
    \/ GetDefaultConfig
    \/ MergeWithDefault
    \/ MergeAgain

Spec == Init /\ [][Next]_vars

-----------------------------------------------------------------------------
(* merge_with_default in one thread, load_default_config in another.  The    *)
(* module takes no lock.  merge_with_default reads the global                *)
(* _default_config three times: in the test of line 79, as the argument of   *)
(* deep_merge in line 88, and for the message printed in line 90.  A load    *)
(* assigns the global once (line 25 or line 29) and writes to no dict a      *)
(* merge may hold, so a load is one step and a merge is one step per read.   *)

\* Entries of the dicts the interleaved calls are given.
MaxConcNodes == 1

\* Values the store takes while one merge_with_default runs.
MaxSeen == 3

ConcDicts == DictsUpTo(MaxConcNodes)
ConcFiles == {<<"missing">>, <<"malformed">>} \cup {<<"json", d>> : d \in ConcDicts}
ConcRequests ==
    {Build(ConfigSchema, d) : d \in {x \in ConcDicts : Validates(ConfigSchema, x)}}

InitConc ==
    /\ mode = "conc"
    /\ heap = << >> /\ heap0 = << >>
    /\ fn_base = 0 /\ fn_override = 0 /\ fn_result = 0 /\ fn_again = 0
    /\ NoCall

\* load_default_config(path) in the loading thread
ConcLoad ==
    /\ mode = "conc"
    /\ \E path \in Paths, file \in ConcFiles :
          /\ path = "" => file = <<"missing">>
          /\ LET r == load_default_config(default_config, heap, path, file)
                 now == StoreValue(r.store, r.heap)
             IN /\ default_config' = r.store
                /\ heap' = r.heap
                /\ seen' = IF m_pc = "idle" THEN seen ELSE seen \cup {now}
                /\ Cardinality(seen') <= MaxSeen
    /\ UNCHANGED <<mode, heap0, fn_base, fn_override, fn_result, fn_again, request, ret,
                   last_op, prev_store, loaded, m_pc, m_dict>>

\* merge_with_default(req) is called
ConcCall ==
    /\ mode = "conc"
    /\ m_pc = "idle"
    /\ \E req \in ConcRequests : request' = <<"config", req>>
    /\ m_pc' = "L79"
    /\ m_dict' = None
    /\ ret' = None
    /\ last_op' = Op("call", None, << >>, None)
    /\ seen' = {StoreValue(default_config, heap)}
    /\ UNCHANGED <<mode, heap, heap0, fn_base, fn_override, fn_result, fn_again,
                   default_config, prev_store, loaded>>

\* if _default_config is None: return request_config
ConcTest ==
    /\ mode = "conc"
    /\ m_pc = "L79"
    /\ IF default_config = None
       THEN /\ ret' = request
            /\ last_op' = Op("merge_with_default", None, << >>, None)
            /\ m_pc' = "idle"
       ELSE /\ m_pc' = "L85"
            /\ UNCHANGED <<ret, last_op>>
    /\ UNCHANGED <<mode, heap, heap0, fn_base, fn_override, fn_result, fn_again,
                   default_config, request, prev_store, loaded, m_dict, seen>>

\* request_dict = ...; merged_dict = deep_merge(_default_config, request_dict):
\* with the global None by now, base.copy() raises AttributeError.
ConcMerge ==
    /\ mode = "conc"
    /\ m_pc = "L85"
    /\ IF default_config = None
       THEN /\ ret' = <<"AttributeError">>
            /\ last_op' = Op("merge_with_default", None, <<"model_dump", "deep_merge">>, None)
            /\ m_pc' = "idle"
            /\ UNCHANGED m_dict
       ELSE /\ LET rd == Alloc(heap, model_dump(request[2], TRUE))
                   m == deep_merge(rd.heap, default_config[2], rd.id)
               IN m_dict' = Dict(Val(m.heap, m.id))
            /\ m_pc' = "L90"
            /\ UNCHANGED <<ret, last_op>>
    /\ UNCHANGED <<mode, heap, heap0, fn_base, fn_override, fn_result, fn_again,
                   default_config, request, prev_store, loaded, seen>>

\* print(... list(_default_config.keys()) ...): with the global None by now,
\* .keys() raises AttributeError.
ConcPrint ==
    /\ mode = "conc"
    /\ m_pc = "L90"
    /\ IF default_config = None
       THEN /\ ret' = <<"AttributeError">>
            /\ last_op' = Op("merge_with_default", None, <<"model_dump", "deep_merge">>, None)
            /\ m_pc' = "idle"
       ELSE /\ m_pc' = "L93"
            /\ UNCHANGED <<ret, last_op>>
    /\ UNCHANGED <<mode, heap, heap0, fn_base, fn_override, fn_result, fn_again,
                   default_config, request, prev_store, loaded, m_dict, seen>>

\* return Config.model_validate(merged_dict)
ConcValidate ==
    /\ mode = "conc"
    /\ m_pc = "L93"
    /\ ret' = model_validate(m_dict[2])
    /\ last_op' = Op("merge_with_default", None,
                     <<"model_dump", "deep_merge", "model_validate">>, None)
    /\ m_pc' = "idle"
    /\ UNCHANGED <<mode, heap, heap0, fn_base, fn_override, fn_result, fn_again,
                   default_config, request, prev_store, loaded, m_dict, seen>>

NextConc ==
    \/ ConcLoad
    \/ ConcCall
    \/ ConcTest
    \/ ConcMerge
    \/ ConcPrint
    \/ ConcValidate

SpecConc == InitConc /\ [][NextConc]_vars

-----------------------------------------------------------------------------
(* What the properties below are stated with. *)

RECURSIVE Merged(_, _)
\* The merge of two dict values as the documentation of deep_merge states
\* it, key by key, with no heap.
Merged(B, O) ==
    [k \in DOMAIN B \cup DOMAIN O |->
        IF k \in DOMAIN B /\ k \in DOMAIN O /\ IsDict(B[k]) /\ IsDict(O[k])
        THEN Dict(Merged(B[k][2], O[k][2]))
        ELSE IF k \in DOMAIN O THEN O[k]
        ELSE B[k]]

\* The arguments of the harness's call as they were before it, and its result.
BaseBefore == Val(heap0, fn_base)
OverrideBefore == Val(heap0, fn_override)
ResultValue == Val(heap, fn_result)

Called == mode = "fn" /\ fn_result /= 0

\* The last call was a merge_with_default.
Merging == mode = "store" /\ last_op.op \in {"merge_with_default", "merge_again"}

\* The request config of the last merge_with_default.
Request == request[2]

\* The store now.
Store == StoreValue(default_config, heap)

\* Every value of an instance's fields, set or not.
AllValues(schema, inst) == Dump(schema, inst, FALSE)

\* What merge_with_default returns for request R with the dict value D (or
\* None) stored.
ExpectedMerge(D, R) ==
    IF D = None THEN <<"config", R>>
    ELSE model_validate(Merged(D[2], model_dump(R, TRUE)))

-----------------------------------------------------------------------------
\* C2: deep_merge(base, override) has exactly the keys of base and of
\* override; under a key of both whose two values are dicts it holds their
\* deep_merge; under any other key of override it holds override's value
\* whole (a dict over a non-dict and a non-dict over a dict included); under a
\* key of base alone it holds base's value.
C2_DeepMergeKeyByKey ==
    Called => ResultValue = Merged(BaseBefore, OverrideBefore)

\* A call that meets each case: a key of both with dicts that both have
\* entries, a key where a non-dict replaces a dict, a key of base alone.
C2_Witness ==
    /\ Called
    /\ \E k \in DOMAIN BaseBefore \cap DOMAIN OverrideBefore :
          /\ IsDict(BaseBefore[k]) /\ IsDict(OverrideBefore[k])
          /\ DOMAIN BaseBefore[k][2] /= {}
          /\ DOMAIN OverrideBefore[k][2] /= {}
          /\ DOMAIN BaseBefore[k][2] /= DOMAIN OverrideBefore[k][2]
    /\ \E k \in DOMAIN BaseBefore \cap DOMAIN OverrideBefore :
          IsDict(BaseBefore[k]) /= IsDict(OverrideBefore[k])

\* C4: deep_merge writes to no dict object that existed before the call:
\* base, override and every dict nested in them hold after it what they held
\* before it.
C4_ArgumentsNotMutated ==
    Called => \A id \in 1..Len(heap0) : heap[id] = heap0[id]

\* A call whose result differs from base at the top and in a nested dict.
C4_Witness ==
    /\ Called
    /\ DOMAIN ResultValue /= DOMAIN BaseBefore
    /\ \E k \in DOMAIN BaseBefore \cap DOMAIN OverrideBefore :
          /\ IsDict(BaseBefore[k]) /\ IsDict(OverrideBefore[k])
          /\ ResultValue[k] /= BaseBefore[k]

\* C5: deep_merge(a, {}) = a and deep_merge({}, b) = b.
C5_EmptyIsIdentity ==
    Called =>
        /\ OverrideBefore = EmptyDict => ResultValue = BaseBefore
        /\ BaseBefore = EmptyDict => ResultValue = OverrideBefore

\* deep_merge({}, b) was called with b a dict that holds a nested dict.
C5_Witness ==
    /\ Called
    /\ BaseBefore = EmptyDict
    /\ \E k \in DOMAIN OverrideBefore :
          IsDict(OverrideBefore[k]) /\ DOMAIN OverrideBefore[k][2] /= {}

\* C7: merging twice gives what merging once gives:
\* deep_merge(deep_merge(a, b), b) = deep_merge(a, b), and with a default
\* loaded merge_with_default(merge_with_default(R)) = merge_with_default(R).
C7_Idempotent ==
    /\ (mode = "fn" /\ fn_again /= 0) => Val(heap, fn_again) = Val(heap, fn_result)
    /\ (mode = "store" /\ last_op.op = "merge_again") => ret = last_op.prev

\* A config returned by a merge over a loaded default that changed the
\* request has been merged again.
C7_Witness ==
    /\ mode = "store"
    /\ last_op.op = "merge_again"
    /\ prev_store /= None
    /\ DOMAIN prev_store[2] /= {}
    /\ Request.set /= {}
    /\ ret[1] = "config"

-----------------------------------------------------------------------------
\* C1 as stated, with a field being a field of the config itself: after
\* merge_with_default(R) over a loaded default D, every field R set
\* explicitly has in the merged config exactly the value it has in R, and
\* every other field has D's value if D has that key, else its declared
\* default.
C1_SetFieldsKeepTheirValue ==
    (Merging /\ prev_store /= None /\ ret[1] = "config") =>
        LET D == prev_store[2]
            R == AllValues(ConfigSchema, Request)
            M == AllValues(ConfigSchema, ret[2])
        IN \A f \in DOMAIN ConfigSchema :
              IF f \in Request.set THEN M[f] = R[f]
              ELSE IF f \in DOMAIN D
              THEN M[f] = AllValues(ConfigSchema,
                                    Build(ConfigSchema, [g \in {f} |-> D[f]]))[f]
              ELSE M[f] = AllValues(ConfigSchema, Build(ConfigSchema, EmptyDict))[f]

RECURSIVE ExplicitWins(_, _, _, _)
\* M is R over D, field by field: a field R set explicitly has R's value,
\* but where that field is a sub-config and D holds a dict under its key the
\* same holds of the sub-config's own fields; a field R did not set has D's
\* value if D has the key, else its declared default.
ExplicitWins(schema, D, R, M) ==
    \A f \in DOMAIN schema :
        IF IsModel(schema[f])
        THEN IF f \in R.set
             THEN IF f \in DOMAIN D /\ IsDict(D[f])
                  THEN ExplicitWins(schema[f][2], D[f][2], R.vals[f], M.vals[f])
                  ELSE AllValues(schema[f][2], M.vals[f])
                         = AllValues(schema[f][2], R.vals[f])
             ELSE IF f \in DOMAIN D
                  THEN IsDict(D[f]) /\ M.vals[f] = Build(schema[f][2], D[f][2])
                  ELSE M.vals[f] = Build(schema[f][2], EmptyDict)
        ELSE IF f \in R.set THEN M.vals[f] = R.vals[f]
             ELSE IF f \in DOMAIN D THEN M.vals[f] = D[f]
             ELSE M.vals[f] = <<"s", schema[f][2]>>

\* C1, amended: when merge_with_default(R) over a loaded default D returns a
\* config, every field R set explicitly that is not a sub-config has exactly
\* R's value; an explicitly set sub-config is merged with the dict D holds
\* under its key by this same rule, sub-field by sub-field (and has exactly
\* R's value when D holds no dict there); every field R did not set has D's
\* value if D has that key, else its declared default.
C1_ExplicitFieldsWin ==
    (Merging /\ prev_store /= None /\ ret[1] = "config") =>
        ExplicitWins(ConfigSchema, prev_store[2], Request, ret[2])

\* A merge where the request set one field of a sub-config, the default
\* gave another field of it a value that is not the declared one, and a
\* top-level field the request left unset came from the default.
C1_Witness ==
    /\ Merging /\ prev_store /= None /\ ret[1] = "config"
    /\ \E f \in Request.set :
          /\ IsModel(ConfigSchema[f])
          /\ f \in DOMAIN prev_store[2]
          /\ IsDict(prev_store[2][f])
          /\ Request.vals[f].set /= {}
          /\ \E g \in DOMAIN prev_store[2][f][2] \ Request.vals[f].set :
                prev_store[2][f][2][g] /= <<"s", ConfigSchema[f][2][g][2]>>

\* C3: with no default loaded, merge_with_default(R) returns R as it is: no
\* model_dump, no deep_merge, no model_validate.
C3_NoDefaultReturnsRequest ==
    (Merging /\ prev_store = None) =>
        /\ ret = request
        /\ last_op.calls = << >>

\* A request with explicitly set fields was merged with no default loaded.
C3_Witness ==
    /\ Merging /\ prev_store = None
    /\ last_op.op = "merge_with_default"
    /\ Request.set /= {}
    /\ \E f \in Request.set : IsModel(ConfigSchema[f]) /\ Request.vals[f].set /= {}

\* C6: the store holds what the most recent successful load was given (None
\* before any load and after a load with an empty path), whatever was
\* stored before; get_default_config returns it and leaves it as it is.
C6_StoreIsLastLoad ==
    mode = "store" =>
        /\ Store = loaded
        /\ last_op.op = "get_default_config" => (ret = loaded /\ Store = prev_store)

\* A load replaced a stored dict by one that lacks a key the old one had.
C6_Witness ==
    /\ mode = "store"
    /\ last_op.op = "load_default_config"
    /\ ret = <<"returned">>
    /\ prev_store /= None
    /\ loaded /= None
    /\ DOMAIN prev_store[2] \ DOMAIN loaded[2] /= {}
    /\ DOMAIN loaded[2] /= {}

\* The last call was a load of a file that is missing or is not JSON.
FailedLoad ==
    /\ mode = "store"
    /\ last_op.op = "load_default_config"
    /\ last_op.arg[1] /= ""
    /\ last_op.arg[2][1] \in {"missing", "malformed"}

\* C8: a load whose file is missing, unreadable or not JSON raises, and the
\* store holds after it what it held before it; a merge_with_default after
\* it uses the value of the last load that succeeded.
C8_FailedLoadKeepsStore ==
    /\ FailedLoad =>
          /\ ret \in {<<"OSError">>, <<"JSONDecodeError">>}
          /\ Store = prev_store
          /\ Store = loaded
    /\ Merging => ret = ExpectedMerge(loaded, Request)

\* A load failed while a dict with entries was stored.
C8_Witness ==
    /\ FailedLoad
    /\ prev_store /= None
    /\ DOMAIN prev_store[2] /= {}
    /\ ret = <<"JSONDecodeError">>

\* C9: merge_with_default leaves the stored default as it was, at every
\* nesting level, whether it returns a config or raises ValidationError.
C9_MergeKeepsStore ==
    Merging => Store = prev_store

\* A merge over a stored dict with a nested dict that the request's
\* explicitly set fields reach, and a merge that raised ValidationError.
C9_Witness ==
    /\ Merging /\ prev_store /= None
    /\ ret[1] = "config"
    /\ \E f \in Request.set :
          /\ f \in DOMAIN prev_store[2]
          /\ IsDict(prev_store[2][f])
          /\ IsModel(ConfigSchema[f])
          /\ Request.vals[f].set \ DOMAIN prev_store[2][f][2] /= {}

-----------------------------------------------------------------------------
\* C10: a merge_with_default that runs while loads (a clearing load
\* included) run in another thread uses one snapshot of the store: what it
\* returns or raises is what a merge run entirely against one of the values
\* the store had during the call returns or raises, and it never fails
\* because the store became None after the test of line 79.
C10_MergeUsesOneSnapshot ==
    (mode = "conc" /\ m_pc = "idle" /\ last_op.op = "merge_with_default") =>
        ret \in {ExpectedMerge(s, Request) : s \in seen}

====
